---- MODULE Spec2Model ----
(***************************************************************************)
(* Model of procedural_fitness (src/src/main.rs): four sample generators   *)
(* (sequence, standard, xorshift, xoshiro256plusplus), the fitness         *)
(* transform and image writer in plot, and the driver run.                 *)
(*                                                                         *)
(* u64 / i64 are modelled with WordBits bits instead of 64, so that the    *)
(* `as i64` casts and the i64 arithmetic of plot keep their wrap-around.   *)
(* The external crates (rand, plotlib, charts_rs, directories, std::fs)    *)
(* are black boxes: their results are nondeterministic choices.            *)
(***************************************************************************)
EXTENDS Integers, Sequences, FiniteSets, TLC

\* ---------------------------------------------------------------- bounds
\* width of the modelled machine word (stands for 64)
WordBits == 5
\* largest point_count a generator is called with
MaxCount == 4
\* range and point_count of the driver (stand for 10000, main.rs:149-150)
RunSize == 3

\* ------------------------------------------------------- machine integers
Modulus == 2 ^ WordBits
MaxU64 == Modulus - 1
MaxI64 == (Modulus \div 2) - 1
MinI64 == -(Modulus \div 2)

\* `x as i64` for a u64 x: reinterpretation in two's complement
AsI64(u) == IF u > MaxI64 THEN u - Modulus ELSE u

\* two's complement wrap of a mathematical integer into i64
WrapI64(x) == AsI64(x % Modulus)

Abs(x) == IF x < 0 THEN -x ELSE x

\* Rust integer division truncates toward zero
TruncDiv(a, b) ==
  LET q == Abs(a) \div Abs(b)
  IN IF (a < 0) # (b < 0) THEN -q ELSE q

Max(S) == CHOOSE m \in S : \A x \in S : x <= m

Range(s) == {s[i] : i \in DOMAIN s}

\* ------------------------------------------------------------- constants
Strategies == <<"sequence", "standard", "xorshift", "xoshiro256plusplus">>
RngStrategies == {"standard", "xorshift", "xoshiro256plusplus"}

\* values of `range` the generators are called with
Ranges == {0, 1, 3, 9, MaxU64}
Counts == 0 .. MaxCount

\* representative values gen_range may draw (a subset of 0 .. MaxU64)
SampleVals == {0, 2, 5, 8, MaxI64, MaxI64 + 1, MaxI64 + 2}

ErrResults == {"Err_create", "Err_write", "Err_base_dirs"}
PanicResults == {"Panic_empty_range", "Panic_unwrap_none", "Panic_overflow",
                 "Panic_to_svg", "Panic_svg_to_png"}

VARIABLES
  overflow_checks,  \* build profile: TRUE = debug (overflow panics), FALSE = release (wraps)
  home,             \* whether BaseDirs::new() resolves a home directory
  stack,            \* call stack, innermost frame last
  pc,               \* position inside the innermost frame
  strategy,         \* generator being run ("none" before the first)
  range,            \* argument range of the generator
  point_count,      \* argument point_count of the generator
  base_vec,         \* sequence_rng_plot: (0..range)
  point_vec,        \* the sample sequence, plot's `points`
  max_y,            \* plot: max of points
  current_fitness,  \* plot: running fitness value
  last_val,         \* plot: previous sample as i64
  fitness,          \* plot: the collected fitness sequence
  rendered,         \* plot: outcome of to_svg / svg_to_png
  files,            \* file system: set of <<path, data>>
  result,           \* result of the innermost generator call
  calls,            \* run: strategies invoked so far, in order
  results,          \* run: results the invoked strategies returned
  run_result        \* run: the value run returned

vars == <<overflow_checks, home, stack, pc, strategy, range, point_count,
          base_vec, point_vec, max_y, current_fitness, last_val, fitness,
          rendered, files, result, calls, results, run_result>>

envVars == <<overflow_checks, home>>
argVars == <<strategy, range, point_count>>
plotVars == <<max_y, current_fitness, last_val, fitness, rendered>>
runVars == <<calls, results, run_result>>

\* -------------------------------------------------------- i64 arithmetic
\* an i64 operation whose mathematical result is x: panics under overflow
\* checks when x does not fit, wraps otherwise
CheckedI64(x) ==
  IF x < MinI64 \/ x > MaxI64
  THEN [ok |-> ~overflow_checks, v |-> WrapI64(x)]
  ELSE [ok |-> TRUE, v |-> x]

\* i64::abs: overflows on i64::MIN
AbsI64(x) ==
  IF x = MinI64
  THEN [ok |-> ~overflow_checks, v |-> MinI64]
  ELSE [ok |-> TRUE, v |-> Abs(x)]

\* (val - last_val) / (val - last_val).abs(), for val # last_val
FitnessDelta(val, last) ==
  LET d == CheckedI64(val - last)
      a == AbsI64(d.v)
  IN [ok |-> d.ok /\ a.ok, v |-> TruncDiv(d.v, a.v)]

\* one call of the closure of the fitness map on sample u
FitnessClosure(s, u) ==
  LET val == AsI64(u)
      step == IF val # s.last_val THEN FitnessDelta(val, s.last_val)
              ELSE [ok |-> TRUE, v |-> 0]
      sum == CheckedI64(s.current_fitness + step.v)
  IN IF ~step.ok \/ ~sum.ok
     THEN [s EXCEPT !.panic = TRUE]
     ELSE [panic |-> FALSE, current_fitness |-> sum.v, last_val |-> val,
           out |-> Append(s.out, sum.v)]

\* the iterator: the closure applied to points[n], points[n+1], ... in order
RECURSIVE FitnessFold(_, _, _)
FitnessFold(points, n, s) ==
  IF n > Len(points) \/ s.panic
  THEN s
  ELSE FitnessFold(points, n + 1, FitnessClosure(s, points[n]))

FitnessMapSkipFirst(points, cf0) ==
  FitnessFold(points, 2,
              [panic |-> FALSE, current_fitness |-> cf0,
               last_val |-> AsI64(points[1]), out |-> <<>>])

\* points.iter().map(closure).collect(), last_val seeded from points[0]
FitnessMap(points, cf0) ==
  FitnessFold(points, 1,
              [panic |-> FALSE, current_fitness |-> cf0,
               last_val |-> AsI64(points[1]), out |-> <<>>])

\* ------------------------------------------------------------ generators
BaseVecFromOne(r) == [i \in 1 .. r |-> i]

\* (0..range).collect_vec()
BaseVec(r) == [i \in 1 .. r |-> i - 1]

\* values rng.gen_range(0..range) can return
Draws(r) == SampleVals \cap (0 .. (r - 1))

\* final_path with extension png
PngPath(s, r, c) == <<s, r, c>>

\* ----------------------------------------------------------------- Init
\* a generator function called with arguments drawn from Ranges and Counts
Init ==
  /\ overflow_checks \in BOOLEAN
  /\ home = TRUE
  /\ strategy \in Range(Strategies)
  /\ range \in Ranges
  /\ point_count \in Counts
  /\ stack = <<strategy>>
  /\ pc = "gen"
  /\ base_vec = <<>>
  /\ point_vec = <<>>
  /\ max_y = 0
  /\ current_fitness = 0
  /\ last_val = 0
  /\ fitness = <<>>
  /\ rendered = "none"
  /\ files = {}
  /\ result = "none"
  /\ calls = <<>>
  /\ results = <<>>
  /\ run_result = "none"

\* the program: main calls run
InitRun ==
  /\ overflow_checks \in BOOLEAN
  /\ home \in BOOLEAN
  /\ strategy = "none"
  /\ range = 0
  /\ point_count = 0
  /\ stack = <<"run">>
  /\ pc = "run"
  /\ base_vec = <<>>
  /\ point_vec = <<>>
  /\ max_y = 0
  /\ current_fitness = 0
  /\ last_val = 0
  /\ fitness = <<>>
  /\ rendered = "none"
  /\ files = {}
  /\ result = "none"
  /\ calls = <<>>
  /\ results = <<>>
  /\ run_result = "none"

\* ------------------------------------------------------- control transfer
\* a panic unwinds the process from the current position
Panic(r) ==
  /\ result' = r
  /\ pc' = "panicked"
  /\ UNCHANGED <<stack, base_vec, point_vec, max_y, current_fitness,
                 last_val, fitness, files>>

\* plot returns r, and the generator returns plot's result to its caller
Return(r) ==
  /\ result' = r
  /\ stack' = SubSeq(stack, 1, Len(stack) - 2)
  /\ pc' = IF stack[1] = "run" THEN "run_ret" ELSE "done"
  /\ max_y' = 0
  /\ current_fitness' = 0
  /\ last_val' = 0
  /\ fitness' = <<>>

\* plot(&final_path, &point_vec)
CallPlot(pv) ==
  /\ point_vec' = pv
  /\ stack' = Append(stack, "plot")
  /\ pc' = "plot"

\* ------------------------------------------------------ sequence_rng_plot
SequenceStart ==
  /\ pc = "gen"
  /\ strategy = "sequence"
  /\ base_vec' = BaseVec(range)
  /\ point_vec' = <<>>
  /\ pc' = "seq_loop"
  /\ UNCHANGED <<envVars, argVars, plotVars, runVars, stack, files, result>>

\* one iteration of the while loop
SequenceExtend ==
  /\ pc = "seq_loop"
  /\ Len(point_vec) < point_count
  /\ point_vec' = point_vec \o base_vec
  /\ UNCHANGED <<envVars, argVars, plotVars, runVars, stack, pc, base_vec,
                 files, result>>

SequenceCallPlot ==
  /\ pc = "seq_loop"
  /\ ~(Len(point_vec) < point_count)
  /\ CallPlot(point_vec)
  /\ UNCHANGED <<envVars, argVars, plotVars, runVars, base_vec, files, result>>

\* ------------------------- standard / xorshift / xoshiro256plusplus
\* (0..point_count).map(|_| rng.gen_range(0..range)).collect_vec(), then plot;
\* gen_range panics on an empty range
RngPlot(s) ==
  /\ pc = "gen"
  /\ strategy = s
  /\ IF point_count >= 1 /\ range = 0
     THEN /\ Panic("Panic_empty_range")
          /\ UNCHANGED rendered
     ELSE /\ \E pv \in [1 .. point_count -> Draws(range)] : CallPlot(pv)
          /\ UNCHANGED <<base_vec, plotVars, files, result>>
  /\ UNCHANGED <<envVars, argVars, runVars>>

StandardRngPlot == RngPlot("standard")

XorshiftRngPlot == RngPlot("xorshift")

Xoshiro256plusplusRngPlot == RngPlot("xoshiro256plusplus")

\* ------------------------------------------------------------------ plot
\* max_y and the initial current_fitness
PlotInit ==
  /\ pc = "plot"
  /\ IF point_vec = <<>>
     THEN Panic("Panic_unwrap_none")
     ELSE /\ max_y' = Max(Range(point_vec))
          /\ current_fitness' = TruncDiv(AsI64(max_y'), 2)
          /\ pc' = "plot_fitness"
          /\ UNCHANGED <<stack, base_vec, point_vec, last_val, fitness,
                         files, result>>
  /\ UNCHANGED <<envVars, argVars, runVars, rendered>>

\* the fitness indicator series
PlotFitness ==
  /\ pc = "plot_fitness"
  /\ LET f == FitnessMap(point_vec, current_fitness)
     IN IF f.panic
        THEN Panic("Panic_overflow")
        ELSE /\ fitness' = f.out
             /\ current_fitness' = f.current_fitness
             /\ last_val' = f.last_val
             /\ pc' = "plot_create"
             /\ UNCHANGED <<stack, base_vec, point_vec, max_y, files, result>>
  /\ UNCHANGED <<envVars, argVars, runVars, rendered>>

\* std::fs::File::create(png_path)?
PlotCreate ==
  /\ pc = "plot_create"
  /\ \E ok \in BOOLEAN :
       IF ok
       THEN /\ files' = {f \in files : f[1] # PngPath(strategy, range, point_count)}
                          \cup {<<PngPath(strategy, range, point_count), "empty">>}
            /\ pc' = "plot_render"
            /\ UNCHANGED <<stack, max_y, current_fitness, last_val, fitness,
                           result>>
       ELSE /\ Return("Err_create")
            /\ UNCHANGED files
  /\ UNCHANGED <<envVars, argVars, runVars, base_vec, point_vec, rendered>>

\* svg_to_png(&Page::single(&v).dimensions(..).to_svg().unwrap().to_string()).unwrap()
PlotRender ==
  /\ pc = "plot_render"
  /\ \E r \in {"ok", "svg_err", "png_err"} :
       /\ rendered' = r
       /\ IF r = "svg_err" THEN Panic("Panic_to_svg")
          ELSE IF r = "png_err" THEN Panic("Panic_svg_to_png")
          ELSE /\ pc' = "plot_write"
               /\ UNCHANGED <<stack, base_vec, point_vec, max_y,
                              current_fitness, last_val, fitness, files, result>>
  /\ UNCHANGED <<envVars, argVars, runVars>>

\* file.write_all(..)?; Ok(())
PlotWrite ==
  /\ pc = "plot_write"
  /\ \E ok \in BOOLEAN :
       IF ok
       THEN /\ files' = {f \in files : f[1] # PngPath(strategy, range, point_count)}
                          \cup {<<PngPath(strategy, range, point_count), "png">>}
            /\ Return("Ok")
       ELSE /\ Return("Err_write")
            /\ UNCHANGED files
  /\ rendered' = "none"
  /\ UNCHANGED <<envVars, argVars, runVars, base_vec, point_vec>>

\* ------------------------------------------------------------------- run
\* invoke strategy s with the driver's range and point_count
RunCall(s) ==
  /\ strategy' = s
  /\ range' = RunSize
  /\ point_count' = RunSize
  /\ stack' = <<"run", s>>
  /\ pc' = "gen"
  /\ calls' = Append(calls, s)
  /\ result' = "none"
  /\ base_vec' = <<>>
  /\ point_vec' = <<>>

\* run returns r
RunExit(r) ==
  /\ run_result' = r
  /\ stack' = <<>>
  /\ pc' = "exit"
  /\ UNCHANGED <<argVars, calls, base_vec, point_vec>>

RunStartNoCheck ==
  /\ pc = "run"
  /\ RunCall(Strategies[1])
  /\ UNCHANGED <<envVars, plotVars, files, results, run_result>>

\* if let Some(base_dirs) = BaseDirs::new() { .. } else { return Err(..) }
RunStart ==
  /\ pc = "run"
  /\ IF home
     THEN /\ RunCall(Strategies[1])
          /\ UNCHANGED <<run_result>>
     ELSE /\ RunExit("Err_base_dirs")
          /\ UNCHANGED result
  /\ UNCHANGED <<envVars, plotVars, files, results>>

RunNextNoAbort ==
  /\ pc = "run_ret"
  /\ results' = Append(results, result)
  /\ IF Len(calls) < Len(Strategies)
     THEN /\ RunCall(Strategies[Len(calls) + 1])
          /\ UNCHANGED run_result
     ELSE /\ RunExit(result)
          /\ UNCHANGED result
  /\ UNCHANGED <<envVars, plotVars, files>>

\* the `?` after each strategy call, and the final Ok(())
RunNext ==
  /\ pc = "run_ret"
  /\ results' = Append(results, result)
  /\ IF result # "Ok"
     THEN /\ RunExit(result)
          /\ UNCHANGED result
     ELSE IF Len(calls) < Len(Strategies)
          THEN /\ RunCall(Strategies[Len(calls) + 1])
               /\ UNCHANGED run_result
          ELSE /\ RunExit("Ok")
               /\ UNCHANGED result
  /\ UNCHANGED <<envVars, plotVars, files>>

\* --------------------------------------------------------- specifications
Next ==
  \/ SequenceStart
  \/ SequenceExtend
  \/ SequenceCallPlot
  \/ StandardRngPlot
  \/ XorshiftRngPlot
  \/ Xoshiro256plusplusRngPlot
  \/ PlotInit
  \/ PlotFitness
  \/ PlotCreate
  \/ PlotRender
  \/ PlotWrite

Spec == Init /\ [][Next]_vars

NextRun ==
  \/ RunStart
  \/ RunNext
  \/ Next

SpecRun == InitRun /\ [][NextRun]_vars

\* ------------------------------------------------------------ properties
InPlot == Len(stack) > 0 /\ stack[Len(stack)] = "plot"

\* plot has collected the fitness sequence and still holds it
TransformDone ==
  /\ InPlot
  /\ \/ pc \in {"plot_create", "plot_render", "plot_write"}
     \/ pc = "panicked" /\ result \in {"Panic_to_svg", "Panic_svg_to_png"}

Sign(x) == IF x > 0 THEN 1 ELSE IF x < 0 THEN -1 ELSE 0

\* C1: for every non-empty sample sequence and every index i >= 1,
\* fitness[i] - fitness[i-1] is 0 when samples[i] = samples[i-1], +1 when
\* samples[i] > samples[i-1] and -1 when samples[i] < samples[i-1].
C1_StepMatchesSign ==
  TransformDone =>
    \A i \in 2 .. Len(point_vec) :
      fitness[i] - fitness[i - 1] = Sign(point_vec[i] - point_vec[i - 1])

\* C2: the first element of the fitness sequence equals max(samples) / 2;
\* in particular samples [5, 5, 2, 8] yield the fitness sequence [4, 4, 3, 4].
C2_FirstIsHalfMax ==
  TransformDone =>
    /\ fitness[1] = Max(Range(point_vec)) \div 2
    /\ point_vec = <<5, 5, 2, 8>> => fitness = <<4, 4, 3, 4>>

\* C3: for every non-empty sample sequence passed to plot, the fitness
\* sequence has exactly the same length as the sample sequence.
C3_SameLength ==
  TransformDone => Len(fitness) = Len(point_vec)

C3_Witness ==
  /\ TransformDone
  /\ Len(point_vec) >= 3
  /\ Len(fitness) = Len(point_vec)

\* C4: for all range > 0 and count >= 1, the sample sequence built by
\* sequence_rng_plot has the value i mod range at every index i it contains
\* (indices counted from 0).
C4_CyclicValues ==
  (strategy = "sequence" /\ range > 0 /\ point_count >= 1) =>
    \A i \in 1 .. Len(point_vec) : point_vec[i] = (i - 1) % range

C4_Witness ==
  /\ strategy = "sequence"
  /\ pc = "plot"
  /\ range > 1
  /\ point_count >= 1
  /\ Len(point_vec) > range
  /\ point_vec[range + 1] = 0

\* C5: for all range > 0 and count >= 1, each of the four generators passes
\* to plot a sample sequence of exactly count elements.
C5_ExactlyCount ==
  (pc = "plot" /\ range > 0 /\ point_count >= 1) =>
    Len(point_vec) = point_count

\* C6: run invokes the strategies in the order sequence, standard, xorshift,
\* xoshiro256plusplus; a strategy starts only after every earlier strategy
\* returned success; once a strategy returns an error no later strategy is
\* invoked, no later file is written and run returns that error.
C6_FailFast ==
  /\ Len(calls) <= Len(Strategies)
  /\ calls = SubSeq(Strategies, 1, Len(calls))
  /\ Len(results) <= Len(calls)
  /\ \A i \in 1 .. (Len(calls) - 1) : i <= Len(results) /\ results[i] = "Ok"
  /\ \A i \in 1 .. Len(results) :
       results[i] # "Ok" =>
         /\ i = Len(calls)
         /\ pc = "exit"
         /\ run_result = results[i]
  /\ \A f \in files : f[1][1] \in Range(calls)
  /\ run_result = "Ok" => results = [i \in 1 .. Len(Strategies) |-> "Ok"]

C6_Witness ==
  /\ pc = "exit"
  /\ calls = <<"sequence", "standard">>
  /\ results = <<"Ok", "Err_write">>
  /\ run_result = "Err_write"
  /\ \A f \in files : f[1][1] \in {"sequence", "standard"}

\* C7: when the home directory cannot be resolved, run returns exactly one
\* error, invokes no generator strategy and writes zero files.
C7_NoHome ==
  ~home =>
    /\ calls = <<>>
    /\ results = <<>>
    /\ strategy = "none"
    /\ files = {}
    /\ pc \in {"run", "exit"}
    /\ pc = "exit" => run_result = "Err_base_dirs"

C7_Witness ==
  /\ ~home
  /\ pc = "exit"
  /\ run_result = "Err_base_dirs"
  /\ calls = <<>>
  /\ files = {}

\* C8: a generator pipeline called with range = 0 and count >= 1 terminates
\* with an explicit error result: it does not panic, does not run forever
\* and does not write an empty or degenerate image.
C8_ZeroRangeIsError ==
  (strategy # "none" /\ range = 0 /\ point_count >= 1) =>
    /\ result \notin PanicResults
    /\ ~(pc = "seq_loop" /\ base_vec = <<>> /\ Len(point_vec) < point_count)
    /\ pc = "done" => result \in ErrResults
    /\ files = {}

\* C9: when plot is given an empty sample sequence it returns an explicit
\* error rather than panicking.
C9_EmptyIsError ==
  (InPlot /\ point_vec = <<>> /\ pc # "plot") => result \in ErrResults

\* C10: in plot a failure of chart-to-SVG construction or of SVG-to-PNG
\* rasterization is returned to the caller as an explicit error and never
\* ends the process by panicking.
C10_RenderFailureIsErr ==
  rendered \in {"svg_err", "png_err"} =>
    /\ result \in ErrResults
    /\ pc # "panicked"

====
